---- MODULE Spec2Model ----
(***************************************************************************)
(* Model of the Free Fire Max Tournament API (src/main.py, src/schemas.py). *)
(*                                                                         *)
(* The three collections of the document store are sequences of documents  *)
(* in insertion ("natural") order.  A document is a function from field     *)
(* names to values.  Python strings whose length or characters the code     *)
(* looks at (path parameters, share codes, id strings, tournament_id) are   *)
(* sequences of one-character strings; enumerated fields (mode, status)     *)
(* and free text (title, name) are plain strings.  An ObjectId is the       *)
(* sequence of its 24 nibbles, so that ObjectId(s) and str(oid) are real    *)
(* conversions.  The free-form optional fields of the schemas that no       *)
(* handler reads (description, prize_pool, notes, ...) are left out of the  *)
(* documents.                                                              *)
(***************************************************************************)
EXTENDS Integers, Sequences, FiniteSets, TLC

VARIABLES tournament, participant, match, req, resp

vars == <<tournament, participant, match, req, resp>>

store == <<tournament, participant, match>>

\* ----------------------------------------------------------------- bounds
\* the number of documents the store holds, over the three collections
MaxDocs == 3

\* ------------------------------------------------------ program constants
\* len(tournament_id) == 24 : the length of an id-shaped path parameter
IdLen == 24
\* secrets.token_hex(3) : three random bytes
TokenBytes == 3
\* max_participants: Field(48, ge=1, le=1000)
MaxParticipantsDefault == 48
MaxParticipantsLow == 1
MaxParticipantsHigh == 1000

\* ------------------------------------------------------- strings and ids
HexLower == <<"0","1","2","3","4","5","6","7","8","9","a","b","c","d","e","f">>
HexUpper == <<"0","1","2","3","4","5","6","7","8","9","A","B","C","D","E","F">>

IsHexChar(c) == \E v \in 1..16 : HexLower[v] = c \/ HexUpper[v] = c

HexVal(c) == (CHOOSE v \in 1..16 : HexLower[v] = c \/ HexUpper[v] = c) - 1

Rep(c, n) == [i \in 1..n |-> c]

\* Python None, as a value no character string equals
NoneVal == <<"<None>">>

\* Python truthiness of an Optional[str]
Truthy(v) == v # NoneVal /\ v # <<>>

\* bson.ObjectId(id_str) accepts exactly the 24-character hex strings
ObjectIdValid(s) == Len(s) = IdLen /\ \A i \in 1..Len(s) : IsHexChar(s[i])

\* bson.ObjectId(id_str): the 12 bytes, as 24 nibbles
ObjectId(s) == [i \in 1..Len(s) |-> HexVal(s[i])]

\* str(ObjectId): lower-case hex
StrOid(o) == [i \in 1..Len(o) |-> HexLower[o[i] + 1]]

\* oid(id_str): the ObjectId, or HTTP 400
oid(id_str) ==
  IF ObjectIdValid(id_str)
  THEN [status |-> 200, oid |-> ObjectId(id_str)]
  ELSE [status |-> 400, oid |-> <<>>]

\* ---------------------------------------------------------------- store
\* find_one's "no document"
NoDoc == [none |-> TRUE]

Min(S) == CHOOSE x \in S : \A y \in S : x <= y

\* collection.find_one({field: value}): the first match in natural order
FindOne(coll, field, value) ==
  LET hits == {i \in 1..Len(coll) : coll[i][field] = value}
  IN  IF hits = {} THEN NoDoc ELSE coll[Min(hits)]

\* get_documents(collection, {field: value}): every match, in natural order
get_documents(coll, field, value) ==
  SelectSeq(coll, LAMBDA d : d[field] = value)

NDocs == Len(tournament) + Len(participant) + Len(match)

\* the id the store assigns to the next inserted document: unique over the
\* collections (ObjectIds carry a process-wide counter)
NewObjectId ==
  LET n == 10 + NDocs
  IN  [i \in 1..IdLen |-> IF i = IdLen THEN n % 16
                          ELSE IF i = IdLen - 1 THEN (n \div 16) % 16
                          ELSE 0]

\* create_document(collection, data): the collection after the insert
create_document(coll, data) == Append(coll, ("_id" :> NewObjectId) @@ data)

\* to_str_id that leaves the document as the store returned it
\* ---------------------------------------------------------- serialization
\* to_str_id that leaves the document as the store returned it
to_str_id_KeepInternal(obj) == obj

to_str_id(obj) ==
  IF "_id" \in DOMAIN obj /\ obj["_id"] # NoneVal
  THEN [k \in (DOMAIN obj \ {"_id"}) \cup {"id"} |->
          IF k = "id" THEN StrOid(obj["_id"]) ELSE obj[k]]
  ELSE obj

serialize_list(items) == [i \in 1..Len(items) |-> to_str_id(items[i])]

\* --------------------------------------------------------------- schemas
HasAll(b, fields) == fields \subseteq DOMAIN b

ValidTournament(b) ==
  /\ HasAll(b, {"title"})
  /\ "mode" \in DOMAIN b => b["mode"] \in {"Solo", "Duo", "Squad"}
  /\ "max_participants" \in DOMAIN b =>
        /\ b["max_participants"] >= MaxParticipantsLow
        /\ b["max_participants"] <= MaxParticipantsHigh
  /\ "status" \in DOMAIN b => b["status"] \in {"upcoming", "ongoing", "completed"}

TournamentDefaults ==
  [title |-> "", mode |-> "Squad", max_participants |-> MaxParticipantsDefault,
   status |-> "upcoming", share_code |-> NoneVal]

ValidParticipant(b) == HasAll(b, {"tournament_id", "name"})

ParticipantDefaults == [tournament_id |-> <<>>, name |-> ""]

ValidMatch(b) ==
  /\ HasAll(b, {"tournament_id", "round_name"})
  /\ "status" \in DOMAIN b => b["status"] \in {"scheduled", "live", "completed"}

MatchDefaults == [tournament_id |-> <<>>, round_name |-> "", status |-> "scheduled"]

\* payload.model_dump(): the validated fields, defaults filled in
model_dump(b, defaults) ==
  [k \in DOMAIN defaults |-> IF k \in DOMAIN b THEN b[k] ELSE defaults[k]]

\* ------------------------------------------------------------- responses
Ok(kind, body) == [status |-> 200, kind |-> kind, body |-> body]

HTTPException(code) == [status |-> code, kind |-> "error", body |-> <<>>]

\* FastAPI's answer to a body that fails the schema
ValidationError == HTTPException(422)

NoBody == [nobody |-> TRUE]

Request(op, ref, body) == [op |-> op, ref |-> ref, body |-> body]

\* ---------------------------------------------------------------- inputs
Zeros(n) == Rep("0", n)

\* "00000000000000000000000a": the id string of the first document stored
FirstIdLower == Zeros(IdLen - 1) \o <<"a">>
\* the same id in upper-case hex
FirstIdUpper == Zeros(IdLen - 1) \o <<"A">>
\* "000000000000000000000000": well formed, never assigned
AbsentId == Zeros(IdLen)
\* 24 characters that are not hex
MalformedId == Rep("z", IdLen)
\* secrets.token_hex(3): 2 * 3 lower-case hex characters
TokenHex == {Zeros(2 * TokenBytes - 1) \o <<c>> : c \in {"a", "b"}}
CodeA == Zeros(2 * TokenBytes - 1) \o <<"a">>

\* tournament_id path parameters, and the code of /api/share/{code}
PathRefs ==
  {FirstIdLower, FirstIdUpper, AbsentId, MalformedId, CodeA}
    \cup {StrOid(tournament[i]["_id"]) : i \in 1..Len(tournament)}

\* share_code values a caller supplies (besides omitting the field)
SuppliedCodes == {<<>>, CodeA, FirstIdLower}

TournamentBodies ==
  {[title |-> "Squad Cup", mode |-> "Squad"]}
    \cup {[title |-> "Squad Cup", share_code |-> c] : c \in SuppliedCodes}
    \cup {[mode |-> "Squad"],
          [title |-> "Squad Cup", mode |-> "Trio"],
          [title |-> "Squad Cup", max_participants |-> MaxParticipantsLow - 1],
          [title |-> "Squad Cup", max_participants |-> MaxParticipantsHigh + 1]}

ParticipantBodies ==
  {[tournament_id |-> <<"x">>, name |-> "Rex"],
   [name |-> "Rex"]}

MatchBodies ==
  {[tournament_id |-> <<"x">>, round_name |-> "Finals"],
   [tournament_id |-> <<"x">>, round_name |-> "Finals", status |-> "paused"]}

\* ------------------------------------------------------------- resolution
\* a lookup that only ever queries share_code
IdOrCodeLookup_CodeOnly(tournament_id) ==
  LET doc == FindOne(tournament, "share_code", tournament_id)
  IN  [status |-> IF doc = NoDoc THEN 404 ELSE 200, doc |-> doc]

\* query = {"_id": oid(tournament_id)} if len(tournament_id) == 24
\*         else {"share_code": tournament_id};  doc = find_one(query)
\* (get_tournament; register_participant, create_match and get_share_link
\* repeat the same two lines).  status 200 with the document, 400 or 404.
IdOrCodeLookup(tournament_id) ==
  IF Len(tournament_id) = IdLen
  THEN IF oid(tournament_id).status # 200
       THEN [status |-> 400, doc |-> NoDoc]
       ELSE LET doc == FindOne(tournament, "_id", oid(tournament_id).oid)
            IN  [status |-> IF doc = NoDoc THEN 404 ELSE 200, doc |-> doc]
  ELSE LET doc == FindOne(tournament, "share_code", tournament_id)
       IN  [status |-> IF doc = NoDoc THEN 404 ELSE 200, doc |-> doc]

\* list_participants / list_matches: t_id = tournament_id if its length is 24,
\* else the id of the tournament with that share code (404 when none)
ListTargetId(tournament_id) ==
  IF Len(tournament_id) = IdLen
  THEN [status |-> 200, t_id |-> tournament_id]
  ELSE LET t == FindOne(tournament, "share_code", tournament_id)
       IN  IF t = NoDoc THEN [status |-> 404, t_id |-> <<>>]
           ELSE [status |-> 200, t_id |-> StrOid(t["_id"])]

\* get_by_share_code with the id-or-code rule of the other endpoints
ShareCodeLookup_IdFallback(code) == IdOrCodeLookup(code)

\* get_by_share_code: find_one({"share_code": code})
ShareCodeLookup(code) ==
  LET t == FindOne(tournament, "share_code", code)
  IN  [status |-> IF t = NoDoc THEN 404 ELSE 200, doc |-> t]

\* ---------------------------------------------------------- read handlers
list_tournaments_resp == Ok("list", serialize_list(tournament))

get_tournament_resp(tournament_id) ==
  LET lk == IdOrCodeLookup(tournament_id)
  IN  IF lk.status # 200 THEN HTTPException(lk.status)
      ELSE Ok("record", <<to_str_id(lk.doc)>>)

list_participants_resp(tournament_id) ==
  LET r == ListTargetId(tournament_id)
  IN  IF r.status # 200 THEN HTTPException(r.status)
      ELSE Ok("list", serialize_list(get_documents(participant, "tournament_id", r.t_id)))

list_matches_resp(tournament_id) ==
  LET r == ListTargetId(tournament_id)
  IN  IF r.status # 200 THEN HTTPException(r.status)
      ELSE Ok("list", serialize_list(get_documents(match, "tournament_id", r.t_id)))

get_share_link_resp(tournament_id) ==
  LET lk == IdOrCodeLookup(tournament_id)
  IN  IF lk.status # 200 THEN HTTPException(lk.status)
      ELSE Ok("share", <<[share_url |-> <<"/", "?", "t", "=">> \o lk.doc["share_code"],
                          code |-> lk.doc["share_code"]]>>)

get_by_share_code_resp(code) ==
  LET lk == ShareCodeLookup(code)
  IN  IF lk.status # 200 THEN HTTPException(lk.status)
      ELSE Ok("record", <<to_str_id(lk.doc)>>)

\* --------------------------------------------------------- write helpers
\* create_tournament without the "or secrets.token_hex(3)"
ShareCodeFor_NoFallback(data, token) == data["share_code"]

\* register_participant / create_match without the tournament_id assignment
ParticipantData_KeepBody(payload, t) == model_dump(payload, ParticipantDefaults)

MatchData_KeepBody(payload, t) == model_dump(payload, MatchDefaults)

\* data["share_code"] = data.get("share_code") or secrets.token_hex(3)
ShareCodeFor(data, token) ==
  IF Truthy(data["share_code"]) THEN data["share_code"] ELSE token

\* data = payload.model_dump(); data["tournament_id"] = str(t.get("_id"))
ParticipantData(payload, t) ==
  [model_dump(payload, ParticipantDefaults) EXCEPT !["tournament_id"] = StrOid(t["_id"])]

MatchData(payload, t) ==
  [model_dump(payload, MatchDefaults) EXCEPT !["tournament_id"] = StrOid(t["_id"])]

\* doc = db[collection].find_one({"_id": ObjectId(new_id)}), new_id the string
\* create_document returned
Created(coll, new_id) == to_str_id(FindOne(coll, "_id", ObjectId(new_id)))

\* --------------------------------------------------------------- actions
Init ==
  /\ tournament = <<>>
  /\ participant = <<>>
  /\ match = <<>>
  /\ req = Request("root", <<>>, NoBody)
  /\ resp = Ok("message", <<>>)

list_tournaments ==
  /\ req' = Request("list_tournaments", <<>>, NoBody)
  /\ resp' = list_tournaments_resp
  /\ UNCHANGED store

create_tournament ==
  \E payload \in TournamentBodies, token \in TokenHex :
    /\ NDocs < MaxDocs
    /\ req' = Request("create_tournament", <<>>, payload)
    /\ IF ~ValidTournament(payload)
       THEN resp' = ValidationError /\ UNCHANGED store
       ELSE LET dump == model_dump(payload, TournamentDefaults)
                data == [dump EXCEPT !["share_code"] = ShareCodeFor(dump, token)]
                new_id == StrOid(NewObjectId)
            IN  /\ tournament' = create_document(tournament, data)
                /\ resp' = Ok("record", <<Created(tournament', new_id)>>)
                /\ UNCHANGED <<participant, match>>

get_tournament ==
  \E tournament_id \in PathRefs :
    /\ req' = Request("get_tournament", tournament_id, NoBody)
    /\ resp' = get_tournament_resp(tournament_id)
    /\ UNCHANGED store

\* register_participant that inserts before it looks the tournament up
register_participant_InsertFirst ==
  \E tournament_id \in PathRefs, payload \in ParticipantBodies :
    /\ NDocs < MaxDocs
    /\ req' = Request("register_participant", tournament_id, payload)
    /\ IF ~ValidParticipant(payload)
       THEN resp' = ValidationError /\ UNCHANGED store
       ELSE LET lk == IdOrCodeLookup(tournament_id)
                new_id == StrOid(NewObjectId)
            IN  /\ participant' = create_document(participant, model_dump(payload, ParticipantDefaults))
                /\ resp' = IF lk.status # 200 THEN HTTPException(lk.status)
                           ELSE Ok("record", <<Created(participant', new_id)>>)
                /\ UNCHANGED <<tournament, match>>

register_participant ==
  \E tournament_id \in PathRefs, payload \in ParticipantBodies :
    /\ NDocs < MaxDocs
    /\ req' = Request("register_participant", tournament_id, payload)
    /\ IF ~ValidParticipant(payload)
       THEN resp' = ValidationError /\ UNCHANGED store
       ELSE LET lk == IdOrCodeLookup(tournament_id)
                new_id == StrOid(NewObjectId)
            IN  IF lk.status # 200
                THEN resp' = HTTPException(lk.status) /\ UNCHANGED store
                ELSE /\ participant' = create_document(participant, ParticipantData(payload, lk.doc))
                     /\ resp' = Ok("record", <<Created(participant', new_id)>>)
                     /\ UNCHANGED <<tournament, match>>

list_participants ==
  \E tournament_id \in PathRefs :
    /\ req' = Request("list_participants", tournament_id, NoBody)
    /\ resp' = list_participants_resp(tournament_id)
    /\ UNCHANGED store

create_match ==
  \E tournament_id \in PathRefs, payload \in MatchBodies :
    /\ NDocs < MaxDocs
    /\ req' = Request("create_match", tournament_id, payload)
    /\ IF ~ValidMatch(payload)
       THEN resp' = ValidationError /\ UNCHANGED store
       ELSE LET lk == IdOrCodeLookup(tournament_id)
                new_id == StrOid(NewObjectId)
            IN  IF lk.status # 200
                THEN resp' = HTTPException(lk.status) /\ UNCHANGED store
                ELSE /\ match' = create_document(match, MatchData(payload, lk.doc))
                     /\ resp' = Ok("record", <<Created(match', new_id)>>)
                     /\ UNCHANGED <<tournament, participant>>

list_matches ==
  \E tournament_id \in PathRefs :
    /\ req' = Request("list_matches", tournament_id, NoBody)
    /\ resp' = list_matches_resp(tournament_id)
    /\ UNCHANGED store

get_share_link ==
  \E tournament_id \in PathRefs :
    /\ req' = Request("get_share_link", tournament_id, NoBody)
    /\ resp' = get_share_link_resp(tournament_id)
    /\ UNCHANGED store

get_by_share_code ==
  \E code \in PathRefs :
    /\ req' = Request("get_by_share_code", code, NoBody)
    /\ resp' = get_by_share_code_resp(code)
    /\ UNCHANGED store

Next ==
  \/ list_participants
  \/ list_matches
  \/ list_tournaments
  \/ create_tournament
  \/ get_tournament
  \/ register_participant
  \/ create_match
  \/ get_share_link
  \/ get_by_share_code

Spec == Init /\ [][Next]_vars

\* =================================================================== claims
\* the record a caller is meant to see for a stored document
Public(doc) ==
  [k \in (DOMAIN doc \ {"_id"}) \cup {"id"} |->
     IF k = "id" THEN StrOid(doc["_id"]) ELSE doc[k]]

\* the first tournament carrying a share code
FirstWithCode(i, code) ==
  /\ tournament[i]["share_code"] = code
  /\ \A j \in 1..(i - 1) : tournament[j]["share_code"] # code

\* no other tournament carries the share code of tournament i
UniqueCode(i) ==
  \A j \in 1..Len(tournament) :
    j # i => tournament[j]["share_code"] # tournament[i]["share_code"]

\* no tournament matches the reference under either key
NoMatch(ref) ==
  \A i \in 1..Len(tournament) :
    /\ tournament[i]["share_code"] # ref
    /\ ObjectIdValid(ref) => tournament[i]["_id"] # ObjectId(ref)

IdAbsent(ref) ==
  \A i \in 1..Len(tournament) : tournament[i]["_id"] # ObjectId(ref)

TidOps ==
  {"get_tournament", "register_participant", "list_participants",
   "create_match", "list_matches", "get_share_link"}

DependentOps == TidOps \ {"get_tournament"}

ReadOps ==
  {"list_tournaments", "get_tournament", "list_participants", "list_matches",
   "get_share_link", "get_by_share_code"}

\* the request passed schema validation (handlers without a body always do)
BodyValid ==
  /\ req.op = "register_participant" => ValidParticipant(req.body)
  /\ req.op = "create_match" => ValidMatch(req.body)
  /\ req.op = "create_tournament" => ValidTournament(req.body)

IsIdString(s) ==
  /\ Len(s) = IdLen
  /\ \A i \in 1..Len(s) : \E v \in 1..16 : HexLower[v] = s[i]

AllDocs ==
  {tournament[i] : i \in 1..Len(tournament)}
    \cup {participant[i] : i \in 1..Len(participant)}
    \cup {match[i] : i \in 1..Len(match)}

\* C1 (as stated): for every tournament T in the store, get_tournament(T.id)
\* and get_tournament(T.share_code) both succeed and return T.
C1_Original ==
  \A i \in 1..Len(tournament) :
    /\ get_tournament_resp(StrOid(tournament[i]["_id"]))
         = Ok("record", <<Public(tournament[i])>>)
    /\ get_tournament_resp(tournament[i]["share_code"])
         = Ok("record", <<Public(tournament[i])>>)

\* C1 (amended): get_tournament(T.id) returns T for every stored tournament T;
\* get_tournament(T.share_code) returns T when T.share_code is not 24
\* characters long and no other stored tournament has the same share_code.
C1_Amended ==
  \A i \in 1..Len(tournament) :
    /\ get_tournament_resp(StrOid(tournament[i]["_id"]))
         = Ok("record", <<Public(tournament[i])>>)
    /\ (Len(tournament[i]["share_code"]) # IdLen /\ UniqueCode(i))
         => get_tournament_resp(tournament[i]["share_code"])
              = Ok("record", <<Public(tournament[i])>>)

\* two tournaments, the second one found by a share code of its own
C1_Witness ==
  /\ Len(tournament) >= 2
  /\ Len(tournament[2]["share_code"]) # IdLen
  /\ UniqueCode(2)
  /\ req.op = "get_tournament"
  /\ req.ref = tournament[2]["share_code"]
  /\ resp.status = 200

\* C2 (as stated): a dependent endpoint called with a reference that matches
\* no tournament answers NotFound (404), nothing else.
C2_Original ==
  (req.op \in DependentOps /\ BodyValid /\ NoMatch(req.ref))
    => resp.status = 404

\* C3 (as stated): for the reference of any request to one of the six
\* endpoints, the list endpoints reach the same outcome (same tournament id,
\* or same failure) as the endpoints that look the tournament up.
C3_Original ==
  req.op \in TidOps =>
    LET lk == IdOrCodeLookup(req.ref)
    IN  ListTargetId(req.ref) =
          [status |-> lk.status,
           t_id |-> IF lk.status = 200 THEN StrOid(lk.doc["_id"]) ELSE <<>>]

\* C4: a successful register_participant or create_match stores and returns a
\* record whose tournament_id is the id string of the tournament the path
\* reference resolved to, whatever tournament_id the body carried.
C4_ResolvedTournamentId ==
  (req.op \in {"register_participant", "create_match"} /\ resp.status = 200) =>
    LET coll == IF req.op = "register_participant" THEN participant ELSE match
        stored == coll[Len(coll)]
        r == resp.body[1]
    IN  /\ r["id"] = StrOid(stored["_id"])
        /\ r["tournament_id"] = stored["tournament_id"]
        /\ \E i \in 1..Len(tournament) :
             /\ r["tournament_id"] = StrOid(tournament[i]["_id"])
             /\ IF Len(req.ref) = IdLen
                THEN ObjectIdValid(req.ref) /\ tournament[i]["_id"] = ObjectId(req.ref)
                ELSE FirstWithCode(i, req.ref)

\* a participant registered through a share code, the body naming another id
C4_Witness ==
  /\ req.op = "register_participant"
  /\ resp.status = 200
  /\ Len(req.ref) # IdLen
  /\ req.body["tournament_id"] # resp.body[1]["tournament_id"]

\* C5: create_tournament answers a valid payload with a record whose id and
\* share_code are non-empty; a supplied non-empty share_code is kept, an
\* omitted or empty one is replaced by a generated code.
C5_CreateTournament ==
  req.op = "create_tournament" =>
    /\ resp.status = 200 <=> ValidTournament(req.body)
    /\ resp.status = 200 =>
         LET r == resp.body[1]
             supplied == "share_code" \in DOMAIN req.body /\ Truthy(req.body["share_code"])
         IN  /\ "id" \in DOMAIN r
             /\ Truthy(r["id"])
             /\ Truthy(r["share_code"])
             /\ supplied => r["share_code"] = req.body["share_code"]
             /\ ~supplied => r["share_code"] \in TokenHex

\* a tournament created from a payload with an empty share_code
C5_Witness ==
  /\ req.op = "create_tournament"
  /\ resp.status = 200
  /\ "share_code" \in DOMAIN req.body
  /\ req.body["share_code"] = <<>>
  /\ resp.body[1]["share_code"] \in TokenHex

\* C6: every record an endpoint returns, alone or in a list, has the
\* store-assigned identifier as a string under id and has no _id field.
C6_PublicId ==
  resp.kind \in {"record", "list"} =>
    \A i \in 1..Len(resp.body) :
      LET r == resp.body[i]
      IN  /\ "_id" \notin DOMAIN r
          /\ "id" \in DOMAIN r
          /\ IsIdString(r["id"])
          /\ \E d \in AllDocs : Public(d) = r

\* a non-empty list of participants was returned
C6_Witness ==
  /\ req.op = "list_participants"
  /\ resp.kind = "list"
  /\ Len(resp.body) >= 1

\* C7 (as stated): on every endpoint with a tournament_id path parameter, a
\* 24-character parameter that is no valid id gives 400, and a valid id that
\* matches no tournament gives 404.
C7_Original ==
  (req.op \in TidOps /\ BodyValid /\ Len(req.ref) = IdLen) =>
    /\ ~ObjectIdValid(req.ref) => resp.status = 400
    /\ (ObjectIdValid(req.ref) /\ IdAbsent(req.ref)) => resp.status = 404

\* C8: get_by_share_code looks at share_code only: it returns a tournament
\* with that share_code, and 404 when there is none, also when the code is
\* the id of a stored tournament.
C8_ShareCodeOnly ==
  req.op = "get_by_share_code" =>
    IF \E i \in 1..Len(tournament) : tournament[i]["share_code"] = req.ref
    THEN /\ resp.status = 200
         /\ resp.body[1]["share_code"] = req.ref
         /\ \E i \in 1..Len(tournament) : resp.body[1] = Public(tournament[i])
    ELSE resp.status = 404

\* the code is the id of a stored tournament and the share_code of none
C8_Witness ==
  /\ req.op = "get_by_share_code"
  /\ \E i \in 1..Len(tournament) : StrOid(tournament[i]["_id"]) = req.ref
  /\ \A i \in 1..Len(tournament) : tournament[i]["share_code"] # req.ref
  /\ resp.status = 404

\* C9: every participant and every match carries the id string of a
\* tournament that is in the store.
C9_ReferentialIntegrity ==
  /\ \A i \in 1..Len(participant) :
       \E j \in 1..Len(tournament) :
         participant[i]["tournament_id"] = StrOid(tournament[j]["_id"])
  /\ \A i \in 1..Len(match) :
       \E j \in 1..Len(tournament) :
         match[i]["tournament_id"] = StrOid(tournament[j]["_id"])

\* a participant and a match are stored
C9_Witness == Len(participant) >= 1 /\ Len(match) >= 1

\* C10: a request that fails (400, 404, 422) and every read endpoint leave
\* the three collections as they were.
C10_NoRecordCreated ==
  [][(resp'.status # 200 \/ req'.op \in ReadOps) => store' = store]_vars

\* a registration refused with 404 in a store that holds a tournament
C10_Witness ==
  /\ req.op = "register_participant"
  /\ resp.status = 404
  /\ Len(tournament) >= 1

====
